---- MODULE Spec2Model ----
(***************************************************************************)
(* Model of the terminal dashboard of src/examples/final.rs (the finished  *)
(* workshop program; chapter4.rs is its previous step): the App state, the *)
(* run loop (render, update, handle_events) and the derived views.         *)
(*                                                                         *)
(* Numbers.  TLC has 32-bit integers, Rust here uses usize/u64/f32/f64:    *)
(*   - a float is a record.  Process cpu readings are Num(v), counted in   *)
(*     1/256 of a percent, which an f32 holds exactly, or NaN.  The f64    *)
(*     quotients x / y * 100.0 of two counters are computed as IEEE 754    *)
(*     does, with a 53-bit significand held in three 18-bit limbs and      *)
(*     round-to-nearest-even after the division and after the product, so  *)
(*     that the `as u64` cast and "{:.2}" see the value Rust sees;         *)
(*   - usize::MAX and u64::MAX (2^64-1) cannot be written in TLC; the      *)
(*     model writes them BIG, TLC's largest integer, which no other value  *)
(*     of the bounded model comes near.                                    *)
(***************************************************************************)
EXTENDS Integers, Sequences, FiniteSets, TLC

\* ------------------------------------------------------------------ bounds

\* Frames the run loop draws before the model stops it.
MaxFrames == 32
\* Calls the harness specifications make of one operation.
MaxCalls == 3
\* Longest process list the provider reports.
MaxProcs == 3

\* update() refreshes the process list every 30th frame (final.rs:98).
RefreshPeriod == 30

\* Stand-in for usize::MAX == u64::MAX == 2^64-1 (see the header).
BIG == 2147483647
USIZE_MAX == BIG
U64_MAX == BIG
\* u16::MAX: the largest width or height a terminal area can have.
U16_MAX == 65535

\* ------------------------------------------------------------------ floats

Num(v) == [k |-> "num", v |-> v]
NaN == [k |-> "nan"]
Inf == [k |-> "inf"]

\* Round n/d (n >= 0, d > 0) to the nearest integer, ties to even: the
\* rounding of Rust's exact-mode float formatting.
RoundHalfEven(n, d) ==
    LET q == n \div d
        r == n % d
    IN  IF 2 * r < d THEN q
        ELSE IF 2 * r > d THEN q + 1
        ELSE IF q % 2 = 0 THEN q ELSE q + 1

\* A positive f64 is [k |-> "f64", a, b, c, e]: the value
\* (a * 2^36 + b * 2^18 + c) * 2^e, where a, b, c are 18-bit limbs of a
\* 54-bit number whose first bit is 1 and whose last bit is 0 (the 53-bit
\* significand).  The counters are below 2^30, quotients below 2^24.
Limb == 2^18

\* n more bits of the quotient r / t (r < t), after the bits acc: long
\* division, eight bits at a time while 256 * r stays below 2^31, else
\* one bit at a time.
RECURSIVE QuotBits(_, _, _, _)
QuotBits(r, t, n, acc) ==
    IF n = 0 THEN [q |-> acc, r |-> r]
    ELSE IF n >= 8 /\ t < 2^22
    THEN QuotBits((256 * r) % t, t, n - 8, 256 * acc + (256 * r) \div t)
    ELSE IF 2 * r >= t THEN QuotBits(2 * r - t, t, n - 1, 2 * acc + 1)
    ELSE QuotBits(2 * r, t, n - 1, 2 * acc)

\* m / t as (m / t) * 2^k with t <= m < 2t.
RECURSIVE Normalized(_, _, _)
Normalized(m, t, k) ==
    IF m < t THEN Normalized(2 * m, t, k - 1)
    ELSE IF m >= 2 * t THEN Normalized(m, 2 * t, k + 1)
    ELSE [m |-> m, t |-> t, k |-> k]

\* Round-to-nearest-even of the 54-bit number (a, b, c) * 2^e, followed by
\* nonzero bits iff sticky, to 53 bits: the last bit is the rounding bit.
RoundNearestEven(a, b, c, sticky, e) ==
    LET g == c % 2
        up == g = 1 /\ (sticky \/ (c \div 2) % 2 = 1)
        c1 == c - g + (IF up THEN 2 ELSE 0)
        b1 == b + c1 \div Limb
        a1 == a + b1 \div Limb
    IN  IF a1 = Limb
        THEN [k |-> "f64", a |-> Limb \div 2, b |-> 0, c |-> 0, e |-> e + 1]
        ELSE [k |-> "f64", a |-> a1, b |-> b1 % Limb, c |-> c1 % Limb, e |-> e]

\* m as f64 / t as f64 for counters m, t >= 1: the first bit of the
\* quotient and 53 more, rounded.
f64_div(m, t) ==
    LET n == Normalized(m, t, 0)
        q1 == QuotBits(n.m - n.t, n.t, 17, 1)
        q2 == QuotBits(q1.r, n.t, 18, 0)
        q3 == QuotBits(q2.r, n.t, 18, 0)
    IN  RoundNearestEven(q1.q, q2.q, q3.q, q3.r # 0, n.k - 53)

\* The limbs of x * 100, exact; the first limb may have up to 25 bits.
Times100(x) ==
    LET c2 == x.c * 100
        b2 == x.b * 100 + c2 \div Limb
        a2 == x.a * 100 + b2 \div Limb
    IN  [a |-> a2, b |-> b2 % Limb, c |-> c2 % Limb, half |-> 0, sticky |-> FALSE]

\* The limbs shifted right by s bits; half is the last bit shifted out,
\* sticky whether a bit shifted out before it was 1.  A whole limb is
\* shifted at a time, then the remaining 1..17 bits.
RECURSIVE ShiftRight(_, _)
ShiftRight(x, s) ==
    IF s = 0 THEN x
    ELSE IF x.a = 0 /\ x.b = 0 /\ x.c = 0
    THEN [x EXCEPT !.half = 0, !.sticky = x.sticky \/ x.half = 1]
    ELSE IF s >= 18
    THEN ShiftRight([a |-> x.a \div Limb,
                     b |-> x.a % Limb,
                     c |-> x.b,
                     half |-> x.c \div (Limb \div 2),
                     sticky |-> x.sticky \/ x.half = 1
                                \/ x.c % (Limb \div 2) # 0], s - 18)
    ELSE [a |-> x.a \div 2^s,
          b |-> x.b \div 2^s + (x.a % 2^s) * 2^(18 - s),
          c |-> x.c \div 2^s + (x.b % 2^s) * 2^(18 - s),
          half |-> (x.c \div 2^(s - 1)) % 2,
          sticky |-> x.sticky \/ x.half = 1 \/ x.c % 2^(s - 1) # 0]

\* x * 100.0 for an f64 x: the exact product rounded to 53 bits.
f64_mul100(x) ==
    LET p == Times100(x)
        s == IF p.a >= 64 * Limb THEN 7 ELSE 6
        y == ShiftRight(p, s)
    IN  RoundNearestEven(y.a, y.b, y.c, y.half = 1 \/ y.sticky, x.e + s)

\* x as u64 for a positive f64 x below 2^31: the integer part.
as_u64(x) ==
    LET y == ShiftRight([a |-> x.a, b |-> x.b, c |-> x.c,
                         half |-> 0, sticky |-> FALSE], 0 - x.e)
    IN  y.b * Limb + y.c

\* x / y * 100.0 in f64 for two counters as f64: NaN for 0/0, +inf for
\* x/0, else the rounded quotient times 100, rounded.
Percent(x, y) ==
    IF y = 0 THEN (IF x = 0 THEN NaN ELSE Inf)
    ELSE IF x = 0 THEN Num(0)
    ELSE f64_mul100(f64_div(x, y))

\* format!("{:.2}", x) of a float x: the text, held as its number of
\* hundredths, or the texts "NaN" and "inf".  The decimal expansion of the
\* binary value is exact and is rounded to the nearest hundredth, ties to
\* even.
Format2(x) ==
    CASE x.k = "nan" -> [k |-> "NaN"]
      [] x.k = "inf" -> [k |-> "inf"]
      [] x.k = "f64" ->
            LET y == ShiftRight(Times100(x), 0 - x.e)
                h == y.b * Limb + y.c
                up == y.half = 1 /\ (y.sticky \/ h % 2 = 1)
            IN  [k |-> "dec", h |-> IF up THEN h + 1 ELSE h]
      [] OTHER -> [k |-> "dec", h |-> RoundHalfEven(x.v * 100, 256)]

\* text.parse::<f64>().unwrap_or_default(): every text Format2 writes parses
\* ("NaN" and "inf" too), so the default 0.0 is never taken for these.  The
\* result is counted in hundredths.
ParseOrDefault(t) ==
    CASE t.k = "NaN" -> NaN
      [] t.k = "inf" -> Inf
      [] OTHER -> Num(t.h)

\* f64::partial_cmp: None as soon as one side is NaN.
partial_cmp(a, b) ==
    IF a.k = "nan" \/ b.k = "nan" THEN "None"
    ELSE IF a.k = "inf" /\ b.k = "inf" THEN "Equal"
    ELSE IF a.k = "inf" THEN "Greater"
    ELSE IF b.k = "inf" THEN "Less"
    ELSE IF a.v < b.v THEN "Less"
    ELSE IF a.v > b.v THEN "Greater"
    ELSE "Equal"

\* The comparator without its .reverse(): an ascending sort.
reverse_forgotten(o) == o

\* Ordering::reverse
reverse(o) ==
    CASE o = "Less" -> "Greater"
      [] o = "Greater" -> "Less"
      [] OTHER -> o

\* ------------------------------------------------------- provider inputs

\* The float readings a process reports as cpu_usage(), in 1/256 percent:
\* 0/256, 2/256 and 3/256 (the last two both print "0.01"), 32/256 (0.125,
\* a tie, prints "0.12"), 96/256 (0.375, a tie, prints "0.38"), and NaN.
ProcCpuVals == {Num(0), Num(2), Num(3), Num(32), Num(96), NaN}

\* Total system memory: zero, 256 units (the quotients memory/total are
\* exact in f64) or 1000 units (they are not).
TotalMemoryVals == {0, 256, 1000}

\* The process lists the long-running loop is fed: the first n processes of
\* a fixed population (pid i uses i*32/256 percent cpu and i*64 units of
\* memory), n = 0..MaxProcs.
PoolProc(i) == [pid |-> i, cpu |-> Num(32 * i), memory |-> 64 * i]
LoopProcLists ==
    { [i \in 1..n |-> PoolProc(i)] : n \in 0..MaxProcs }

\* Every process list of up to MaxProcs processes over ProcCpuVals, in the
\* order the process map iterates (pid = position, memory = 64 units).
AllProcLists ==
    UNION { [1..n -> ProcCpuVals] : n \in 0..MaxProcs }
ProcList(cpus) ==
    [i \in 1..Len(cpus) |-> [pid |-> i, cpu |-> cpus[i], memory |-> 64]]
RichProcLists == { ProcList(c) : c \in AllProcLists }

\* Raw disks: a name (its path segments) with available and total bytes.
\* 1 of 8 is an exact quotient that is no whole percentage, 29 of 100 a
\* whole percentage whose f64 computation falls just below it.
DiskBytes == {0, 1, 8, 29, 50, 100, 200}
DiskNames == { <<"dev", "sda1">>, <<"tmpfs">> }
RawDisks == [name : DiskNames, available : DiskBytes, total : DiskBytes]
RichDiskLists ==
    { <<>> } \cup { <<d>> : d \in RawDisks }
    \cup { <<d, e>> : d \in { x \in RawDisks : x.name = <<"dev", "sda1">> },
                      e \in { x \in RawDisks : x.name = <<"tmpfs">> /\ x.total = 0 } }
LoopDiskLists ==
    { <<[name |-> <<"dev", "sda1">>, available |-> 50, total |-> 200]>> }

\* Network readings: the interfaces the provider reports, each with its
\* packets_received() + packets_transmitted().
Interfaces == {"eth0", "eth10", "wlan0"}
\* The bytes of an interface name (a Rust String is UTF-8; these are ASCII).
NameBytes(name) ==
    CASE name = "eth0" -> <<101, 116, 104, 48>>
      [] name = "eth10" -> <<101, 116, 104, 49, 48>>
      [] name = "wlan0" -> <<119, 108, 97, 110, 48>>
PacketVals == {50, 100, 180}
RichNetReadings ==
    UNION { [ifs -> PacketVals] : ifs \in SUBSET Interfaces }
\* The readings the network harness is fed: any set of interfaces, with
\* eth0 moving and the others idle.
ViewNetReadings ==
    { r \in RichNetReadings : \A n \in DOMAIN r : n # "eth0" => r[n] = 50 }
LoopNetReadings ==
    { [i \in ifs |-> 100] : ifs \in {{"eth0"}, {"eth0", "wlan0"}} }

\* global_cpu_usage() in percent and used_memory() in units.
CpuVals == {0, 37, 100}
UsedMemoryVals == {0, 128}
LoopCpuVals == {37}
LoopUsedMemoryVals == {128}

\* The frame counters the sampling harness passes to update().
FrameInputs == {0, 1, 29, 30, 31, 60}

\* What one poll of the terminal can deliver: no event within the timeout,
\* an event, or an I/O error of event::poll or of event::read.
KeyCodes == {"q", "Down", "j", "Up", "k", "x"}
KeyKinds == {"Press", "Release", "Repeat"}
Events ==
    { [ev |-> "Timeout"], [ev |-> "Mouse"], [ev |-> "Resize"],
      [ev |-> "PollErr"], [ev |-> "ReadErr"] }
    \cup { [ev |-> "Key", kind |-> kd, code |-> c] : kd \in KeyKinds, c \in KeyCodes }

\* The geometry a frame gives the panels: the rows and the columns the
\* network panel has for its sparklines (the rows of the inner area, the
\* width of data_area) and whether the inner area of the process table is
\* empty.  A terminal with room for everything, one too low for any inner
\* row, one with a single inner row, and two narrow ones.
Roomy == [net_rows |-> U16_MAX, net_width |-> U16_MAX, table_empty |-> FALSE]
LoopPanels == { Roomy }
TooLow == [net_rows |-> 0, net_width |-> U16_MAX, table_empty |-> TRUE]
TablePanels == { Roomy, TooLow }
RichPanels ==
    { Roomy,
      TooLow,
      [net_rows |-> 1, net_width |-> U16_MAX, table_empty |-> FALSE],
      [net_rows |-> U16_MAX, net_width |-> 1, table_empty |-> FALSE],
      [net_rows |-> U16_MAX, net_width |-> 0, table_empty |-> FALSE] }

\* ------------------------------------------------------------- the views

\* process.memory() as f64 / self.system.total_memory() as f64 * 100.0
MemPercent(memory, total) == Percent(memory, total)

\* One table row of render_process: pid, cpu text, memory text.
Row(p, total) ==
    [pid |-> p.pid, cpu |-> Format2(p.cpu), mem |-> Format2(MemPercent(p.memory, total))]

\* The comparator of rows.sort_by; "None" is where .unwrap() panics.
Compare(a, b) ==
    reverse(partial_cmp(ParseOrDefault(a.cpu), ParseOrDefault(b.cpu)))

\* An unstable sort: a row is put before the rows it compares equal to.
RECURSIVE InsertPosUnstable(_, _, _)
InsertPosUnstable(s, r, j) ==
    IF j = 0 THEN 0
    ELSE LET c == Compare(r, s[j])
         IN  IF c = "None" THEN -1
             ELSE IF c \in {"Less", "Equal"} THEN InsertPosUnstable(s, r, j - 1)
             ELSE j

\* Where a stable sort puts row r in the sorted rows s, looking from the
\* right: after position j; -1 when a comparison panics.
RECURSIVE InsertPos(_, _, _)
InsertPos(s, r, j) ==
    IF j = 0 THEN 0
    ELSE LET c == Compare(r, s[j])
         IN  IF c = "None" THEN -1
             ELSE IF c = "Less" THEN InsertPos(s, r, j - 1)
             ELSE j

\* rows.sort_by(..): a stable sort of the first n rows.
RECURSIVE SortPrefix(_, _)
SortPrefix(rows, n) ==
    IF n = 0 THEN [ok |-> TRUE, rows |-> <<>>]
    ELSE LET p == SortPrefix(rows, n - 1)
         IN  IF ~p.ok THEN p
             ELSE LET j == InsertPos(p.rows, rows[n], Len(p.rows))
                  IN  IF j < 0 THEN [ok |-> FALSE, rows |-> <<>>]
                      ELSE [ok |-> TRUE,
                            rows |-> SubSeq(p.rows, 1, j) \o <<rows[n]>>
                                     \o SubSeq(p.rows, j + 1, Len(p.rows))]

sort_by(rows) == SortPrefix(rows, Len(rows))

\* The rows render_process builds from system.processes(), sorted.
SortedRows(procs, total) ==
    sort_by([i \in 1..Len(procs) |-> Row(procs[i], total)])

\* (available as f64 / total as f64 * 100.0) as u64: the cast truncates,
\* sends NaN to 0 and saturates +inf to u64::MAX.
DiskPercent(available, total) ==
    LET x == Percent(available, total)
    IN  CASE x.k = "nan" -> 0
          [] x.k = "inf" -> U64_MAX
          [] x.k = "num" -> 0
          [] OTHER -> as_u64(x)

\* name.rsplit('/').next().unwrap(): the last path segment.
LastSegment(name) == name[Len(name)]

\* One entry of disk_data.
DiskEntry(d) == <<LastSegment(d.name), DiskPercent(d.available, d.total)>>

\* TableState::select_next / select_previous / the clamp of Table::render
\* (ratatui).  An Option<usize> is a sequence of length 0 or 1.
select_next(sel) ==
    IF sel = <<>> THEN <<0>>
    ELSE IF sel[1] = USIZE_MAX THEN sel ELSE <<sel[1] + 1>>
select_previous(sel) ==
    IF sel = <<>> THEN <<USIZE_MAX>>
    ELSE IF sel[1] = 0 THEN sel ELSE <<sel[1] - 1>>
\* A render that leaves the selection as it finds it.
TableRenderNoClamp(sel, len, area_empty) ==
    IF area_empty \/ len > 0 THEN sel ELSE <<>>

\* A render that sends a selection past the last row back to the first.
TableRenderWrap(sel, len, area_empty) ==
    IF area_empty THEN sel
    ELSE IF len = 0 THEN <<>>
    ELSE IF sel # <<>> /\ sel[1] >= len THEN <<0>>
    ELSE sel

\* Table::render on the selection sel with len rows: it returns before it
\* looks at the selection when the inner area of the table is empty.
TableRender(sel, len, area_empty) ==
    IF area_empty THEN sel
    ELSE IF len = 0 THEN <<>>
    ELSE IF sel # <<>> /\ sel[1] >= len THEN <<len - 1>>
    ELSE sel

\* <[u8] as Ord>::cmp: lexicographic, a proper prefix is the lesser.
RECURSIVE cmp_bytes(_, _)
cmp_bytes(a, b) ==
    IF a = <<>> THEN (IF b = <<>> THEN "Equal" ELSE "Less")
    ELSE IF b = <<>> THEN "Greater"
    ELSE IF a[1] < b[1] THEN "Less"
    ELSE IF a[1] > b[1] THEN "Greater"
    ELSE cmp_bytes(Tail(a), Tail(b))

\* name1.cmp(name2) of two Strings: the order of their bytes.
cmp(name1, name2) == cmp_bytes(NameBytes(name1), NameBytes(name2))

\* Where the stable sort puts entry e in the sorted entries s, looking
\* from the right: after position j.
RECURSIVE NetInsertPos(_, _, _)
NetInsertPos(s, e, j) ==
    IF j = 0 THEN 0
    ELSE IF cmp(e[1], s[j][1]) = "Less" THEN NetInsertPos(s, e, j - 1)
    ELSE j

RECURSIVE NetSortPrefix(_, _)
NetSortPrefix(entries, n) ==
    IF n = 0 THEN <<>>
    ELSE LET p == NetSortPrefix(entries, n - 1)
             j == NetInsertPos(p, entries[n], Len(p))
         IN  SubSeq(p, 1, j) \o <<entries[n]>> \o SubSeq(p, j + 1, Len(p))

\* The entries left in the order the map iterates them.
sort_by_name_skipped(entries) == entries

\* network_data.sort_by(|(name1, _), (name2, _)| name1.cmp(name2))
sort_by_name(entries) == NetSortPrefix(entries, Len(entries))

\* The orders in which a HashMap may iterate its keys: every one.
IterationOrders(data) ==
    { s \in [1..Cardinality(DOMAIN data) -> DOMAIN data] :
        \A i, j \in DOMAIN s : i # j => s[i] # s[j] }

\* data.iter().rev().take(width).rev(): the last `width` readings.
LastReadings(data, width) ==
    IF Len(data) <= width THEN data
    ELSE SubSeq(data, Len(data) - width + 1, Len(data))

\* render_network: self.network_data.iter() collected in the iteration
\* order `order` and sorted by name (`sorted`, the local network_data),
\* then drawn (`drawn`): zipped with the rows of the panel, one sparkline
\* per interface that gets a row, of its last `width` readings.
NetworkView(data, order, rows, width) ==
    LET sorted ==
            sort_by_name([i \in 1..Len(order) |-> <<order[i], data[order[i]]>>])
        n == IF Len(sorted) <= rows THEN Len(sorted) ELSE rows
    IN  [sorted |-> sorted,
         drawn |-> [i \in 1..n |->
                      <<sorted[i][1], LastReadings(sorted[i][2], width)>>]]

\* ------------------------------------------------------------------ state

VARIABLES
    pc,             \* where run() is: start, loop, render, update, events,
                    \* done (run returned Ok), error (run returned Err),
                    \* panic (the process aborted)
    running,        \* App.running
    frame_count,    \* the terminal's frame counter, frame.count()
    processes,      \* system.processes(), in the map's iteration order
    total_memory,   \* system.total_memory()
    disks,          \* self.disks: the raw disks as of the last refresh
    networks,       \* self.networks: the readings as of the last refresh
    cpu_data,       \* App.cpu_data: <<frame, usage>> samples
    memory_data,    \* App.memory_data: <<frame, used>> samples
    disk_data,      \* App.disk_data: <<name, percent>> entries
    network_data,   \* App.network_data: interface name -> readings
    selected,       \* App.table_state.selected()
    rows,           \* the table rows of the last rendered frame
    net_view,       \* the network panel of the last rendered frame:
                    \* <<name, readings>> entries, as sorted and as drawn
    ticks,          \* history: calls of update() so far
    renders,        \* history: frames rendered so far
    last_op,        \* history: the operation of the last step
    last_tick,      \* history: what the update() of the step just taken was
                    \* given (the frame counter, the host's readings);
                    \* <<>> once the loop has moved on
    last_event,     \* history: what the poll of the step just taken
                    \* delivered; <<>> once the loop has moved on
    render_in,      \* history: the selection and the panel geometry the
                    \* render of the step just taken found, as
                    \* <<selected, panel>>; <<>> once the loop has moved on
    presses,        \* history of the table harness: select_next calls since
                    \* select_first; -1 when the cursor was moved otherwise
    calls           \* history: operations a harness has applied

vars == <<pc, running, frame_count, processes, total_memory, disks, networks,
          cpu_data, memory_data, disk_data, network_data, selected, rows,
          net_view, ticks, renders, last_op, last_tick, last_event,
          render_in, presses, calls>>

\* App::default(): the state after construction.  System::new_all() and
\* the two new_with_refreshed_list() calls take a first reading.
InitApp(procLists, totals, diskLists, netReadings) ==
    /\ pc = "start"
    /\ running = TRUE
    /\ frame_count = 0
    /\ processes \in procLists
    /\ total_memory \in totals
    /\ disks \in diskLists
    /\ networks \in netReadings
    /\ cpu_data = <<>>
    /\ memory_data = <<>>
    /\ disk_data = <<>>
    /\ network_data = <<>>
    /\ selected = <<>>
    /\ rows = <<>>
    /\ net_view = [sorted |-> <<>>, drawn |-> <<>>]
    /\ ticks = 0
    /\ renders = 0
    /\ last_op = "default"
    /\ last_tick = <<>>
    /\ last_event = <<>>
    /\ render_in = <<>>
    /\ presses = -1
    /\ calls = 0

\* ------------------------------------------------------------- operations

\* self.disk_data after update_disk_data() has read the raw disks `raw`:
\* one entry pushed per disk, after the entries already there.
PushDisks(data, raw) ==
    data \o [i \in 1..Len(raw) |-> DiskEntry(raw[i])]

\* App::update_disk_data
update_disk_data(raw) ==
    /\ disks' = raw
    /\ disk_data' = PushDisks(disk_data, raw)

\* A map rebuilt from the current readings: an interface that is not
\* reported loses its history.
RecordNetworksReportedOnly(data, net) ==
    [n \in DOMAIN net |->
        (IF n \in DOMAIN data THEN data[n] ELSE <<>>) \o <<net[n]>>]

\* self.network_data after update_network_data() has read `net`:
\* entry(name).or_default().push(reading) for every reported interface.
RecordNetworks(data, net) ==
    [n \in DOMAIN data \cup DOMAIN net |->
        IF n \in DOMAIN net
        THEN (IF n \in DOMAIN data THEN data[n] ELSE <<>>) \o <<net[n]>>
        ELSE data[n]]

\* App::update_network_data
update_network_data(net) ==
    /\ networks' = net
    /\ network_data' = RecordNetworks(network_data, net)

\* The refresh one frame late.
RefreshDueLate(frame) == frame % RefreshPeriod = 1

\* Whether update(frame) refreshes the process list.
RefreshDue(frame) == frame % RefreshPeriod = 0

\* A push that skips a reading equal to the last one stored.
PushSampleDedup(data, frame, value) ==
    IF data # <<>> /\ data[Len(data)][2] = value THEN data
    ELSE Append(data, <<frame, value>>)

\* A push that puts the newest sample first.
PushSampleFront(data, frame, value) == <<<<frame, value>>>> \o data

\* A history after update() has pushed the sample (frame as f64, value):
\* the push is unconditional.
PushSample(data, frame, value) == Append(data, <<frame, value>>)

\* An update whose memory sample sits inside the `if` of the process
\* refresh: memory is sampled every 30th frame only.
update_memory_in_refresh(frame, procs, cpu, mem, net) ==
    /\ processes' = IF RefreshDue(frame) THEN procs ELSE processes
    /\ cpu_data' = PushSample(cpu_data, frame, cpu)
    /\ memory_data' = IF RefreshDue(frame)
                      THEN PushSample(memory_data, frame, mem)
                      ELSE memory_data
    /\ update_network_data(net)
    /\ ticks' = ticks + 1
    /\ last_tick' = [frame |-> frame, procs |-> procs, cpu |-> cpu,
                     mem |-> mem, net |-> net]

\* App::update(frame): the host reports the process list procs, the cpu
\* usage cpu, the used memory mem and the network readings net.
update(frame, procs, cpu, mem, net) ==
    /\ processes' = IF RefreshDue(frame) THEN procs ELSE processes
    /\ cpu_data' = PushSample(cpu_data, frame, cpu)
    /\ memory_data' = PushSample(memory_data, frame, mem)
    /\ update_network_data(net)
    /\ ticks' = ticks + 1
    /\ last_tick' = [frame |-> frame, procs |-> procs, cpu |-> cpu,
                     mem |-> mem, net |-> net]

\* A match without the 'q' arm.
OnKeyNoQuit(code) ==
    CASE code \in {"Down", "j"} -> /\ selected' = select_next(selected)
                                   /\ running' = running
      [] code \in {"Up", "k"} -> /\ selected' = select_previous(selected)
                                 /\ running' = running
      [] OTHER -> UNCHANGED <<running, selected>>

\* What a key press does to (running, selected): the match of handle_events.
OnKey(code) ==
    CASE code = "q" -> /\ running' = FALSE
                       /\ selected' = selected
      [] code \in {"Down", "j"} -> /\ selected' = select_next(selected)
                                   /\ running' = running
      [] code \in {"Up", "k"} -> /\ selected' = select_previous(selected)
                                 /\ running' = running
      [] OTHER -> UNCHANGED <<running, selected>>

\* A handler that forgets to look at the kind of the key event.
handle_events_any_kind(e) ==
    /\ IF e.ev = "Key"
       THEN OnKey(e.code)
       ELSE UNCHANGED <<running, selected>>
    /\ last_event' = e

\* App::handle_events with the poll delivering e.
handle_events(e) ==
    /\ IF e.ev = "Key" /\ e.kind = "Press"
       THEN OnKey(e.code)
       ELSE UNCHANGED <<running, selected>>
    /\ last_event' = e

\* Whether handle_events returns Err: the `?` of event::poll and of
\* event::read.
handle_events_err(e) == e.ev \in {"PollErr", "ReadErr"}

\* frame.render_widget(&mut self, ..) on a frame of geometry panel: the
\* panels are drawn in turn, the network panel before the process table,
\* and of the six only the process table touches the state.  Its sort
\* panics on a NaN key; otherwise the table is drawn and Table::render
\* clamps the selection.
render(panel) ==
    /\ \E order \in IterationOrders(network_data) :
          net_view' = NetworkView(network_data, order,
                                  panel.net_rows, panel.net_width)
    /\ render_in' = <<selected, panel>>
    /\ LET sorted == SortedRows(processes, total_memory)
       IN  IF sorted.ok
           THEN /\ rows' = sorted.rows
                /\ selected' = TableRender(selected, Len(sorted.rows),
                                           panel.table_empty)
                /\ renders' = renders + 1
           ELSE UNCHANGED <<rows, selected, renders>>

RenderPanics == ~SortedRows(processes, total_memory).ok

\* ---------------------------------------------------------- the run loop

\* A loop that polls and applies the input first, then ticks, then draws.
AfterStepInputFirst(step) ==
    CASE step = "while" -> "events"
      [] step = "events" -> "update"
      [] step = "update" -> "render"
      [] step = "render" -> "loop"

\* The body of the while loop of run(), as the position that follows each
\* step: the loop test, the render and then the update inside
\* terminal.draw, handle_events, and back to the loop test.
AfterStep(step) ==
    CASE step = "while" -> "render"
      [] step = "render" -> "update"
      [] step = "update" -> "events"
      [] step = "events" -> "loop"

\* run(): update_disk_data(), then table_state.select_first().
Startup(diskLists) ==
    /\ pc = "start"
    /\ \E raw \in diskLists : update_disk_data(raw)
    /\ selected' = <<0>>
    /\ pc' = "loop"
    /\ last_op' = "update_disk_data"
    /\ UNCHANGED <<running, frame_count, processes, total_memory, networks,
                   cpu_data, memory_data, network_data, rows, net_view,
                   ticks, renders, last_tick, last_event, render_in,
                   presses, calls>>

\* while self.running: enter the next frame, or return Ok(()).
LoopHead ==
    /\ pc = "loop"
    /\ running => frame_count < MaxFrames
    /\ pc' = IF running THEN AfterStep("while") ELSE "done"
    /\ last_op' = "while"
    /\ last_event' = <<>>
    /\ UNCHANGED <<running, frame_count, processes, total_memory, disks,
                   networks, cpu_data, memory_data, disk_data, network_data,
                   selected, rows, net_view, ticks, renders, last_tick,
                   render_in, presses, calls>>

\* terminal.draw, before the closure runs: resizing the buffers to the
\* terminal fails and the `?` after draw leaves run() with Err.
DrawFails ==
    /\ pc = "render"
    /\ pc' = "error"
    /\ last_op' = "draw"
    /\ UNCHANGED <<running, frame_count, processes, total_memory, disks,
                   networks, cpu_data, memory_data, disk_data, network_data,
                   selected, rows, net_view, ticks, renders, last_tick,
                   last_event, render_in, presses, calls>>

\* terminal.draw, first half of the closure: the frame is rendered.
Render(panels) ==
    /\ pc = "render"
    /\ \E panel \in panels : render(panel)
    /\ pc' = IF RenderPanics THEN "panic" ELSE AfterStep("render")
    /\ last_op' = "render"
    /\ UNCHANGED <<running, frame_count, processes, total_memory, disks,
                   networks, cpu_data, memory_data, disk_data, network_data,
                   ticks, last_tick, last_event, presses, calls>>

\* terminal.draw, second half: self.update(frame.count()); draw then
\* writes the frame to the terminal and, if that succeeds (flushed),
\* advances the frame counter; if it fails, the `?` leaves run() with Err.
Update(procLists, cpuVals, memVals, netReadings) ==
    /\ pc = "update"
    /\ \E procs \in procLists, cpu \in cpuVals, mem \in memVals,
          net \in netReadings :
            update(frame_count, procs, cpu, mem, net)
    /\ \E flushed \in BOOLEAN :
          /\ frame_count' = IF flushed THEN frame_count + 1 ELSE frame_count
          /\ pc' = IF flushed THEN AfterStep("update") ELSE "error"
    /\ last_op' = "update"
    /\ render_in' = <<>>
    /\ UNCHANGED <<running, total_memory, disks, disk_data, selected, rows,
                   net_view, renders, last_event, presses, calls>>

\* self.handle_events()
HandleEvents ==
    /\ pc = "events"
    /\ \E e \in Events :
          /\ handle_events(e)
          /\ pc' = IF handle_events_err(e) THEN "error" ELSE AfterStep("events")
    /\ last_op' = "handle_events"
    /\ last_tick' = <<>>
    /\ UNCHANGED <<frame_count, processes, total_memory, disks, networks,
                   cpu_data, memory_data, disk_data, network_data, rows,
                   net_view, ticks, renders, render_in, presses, calls>>

Init == InitApp(LoopProcLists, {256}, LoopDiskLists, LoopNetReadings)

Next ==
    \/ Startup(LoopDiskLists)
    \/ LoopHead
    \/ DrawFails
    \/ Render(LoopPanels)
    \/ Update(LoopProcLists, LoopCpuVals, LoopUsedMemoryVals, LoopNetReadings)
    \/ HandleEvents

\* The program: App::default().run(terminal).
Spec == Init /\ [][Next]_vars

\* ------------------------------------------------------------- harnesses
\* The operations applied one at a time to a constructed App, with inputs
\* the run loop never passes or richer than the long run can afford.

\* update(f) with any frame counter f, increasing or not.
ApiUpdate ==
    /\ calls < MaxCalls
    /\ \E f \in FrameInputs, procs \in {<<>>, <<PoolProc(1)>>},
          cpu \in LoopCpuVals, mem \in LoopUsedMemoryVals,
          net \in LoopNetReadings :
            update(f, procs, cpu, mem, net)
    /\ calls' = calls + 1
    /\ last_op' = "update"
    /\ UNCHANGED <<pc, running, frame_count, total_memory, disks, disk_data,
                   selected, rows, net_view, renders, last_event, render_in,
                   presses>>

InitSampling ==
    InitApp({<<PoolProc(1), PoolProc(2)>>}, {256}, LoopDiskLists, LoopNetReadings)

SpecSampling == InitSampling /\ [][ApiUpdate]_vars

\* update_disk_data() against the disks the provider holds.
ApiUpdateDisk ==
    /\ calls < MaxCalls
    /\ update_disk_data(disks)
    /\ calls' = calls + 1
    /\ last_op' = "update_disk_data"
    /\ UNCHANGED <<pc, running, frame_count, processes, total_memory,
                   networks, cpu_data, memory_data, network_data, selected,
                   rows, net_view, ticks, renders, last_tick, last_event,
                   render_in, presses>>

InitDisk == InitApp({<<>>}, {256}, RichDiskLists, {<<>>})

SpecDisk == InitDisk /\ [][ApiUpdateDisk]_vars

\* The table operations on a fixed process list.
ApiRender(panels) ==
    /\ pc # "panic"
    /\ calls < MaxCalls
    /\ \E panel \in panels : render(panel)
    /\ calls' = calls + 1
    /\ last_op' = "render"
    /\ pc' = IF RenderPanics THEN "panic" ELSE pc
    /\ UNCHANGED <<running, frame_count, processes, total_memory, disks,
                   networks, cpu_data, memory_data, disk_data, network_data,
                   ticks, last_tick, last_event, presses>>

ApiSelectFirst ==
    /\ selected' = <<0>>
    /\ presses' = 0
    /\ last_op' = "select_first"
    /\ UNCHANGED <<pc, running, frame_count, processes, total_memory, disks,
                   networks, cpu_data, memory_data, disk_data, network_data,
                   rows, net_view, ticks, renders, last_tick, last_event,
                   render_in, calls>>

ApiSelectNext ==
    /\ IF selected = <<>> THEN TRUE
       ELSE (selected[1] <= MaxProcs \/ selected[1] = USIZE_MAX)
    /\ selected' = select_next(selected)
    /\ presses' = IF presses >= 0 THEN presses + 1 ELSE presses
    /\ last_op' = "select_next"
    /\ UNCHANGED <<pc, running, frame_count, processes, total_memory, disks,
                   networks, cpu_data, memory_data, disk_data, network_data,
                   rows, net_view, ticks, renders, last_tick, last_event,
                   render_in, calls>>

ApiSelectPrevious ==
    /\ IF selected = <<>> THEN TRUE ELSE selected[1] <= MaxProcs + 1
    /\ selected' = select_previous(selected)
    /\ presses' = -1
    /\ last_op' = "select_previous"
    /\ UNCHANGED <<pc, running, frame_count, processes, total_memory, disks,
                   networks, cpu_data, memory_data, disk_data, network_data,
                   rows, net_view, ticks, renders, last_tick, last_event,
                   render_in, calls>>

\* update() as the loop calls it, the frame counter being the number of
\* ticks so far, against any network readings.
ApiTick(netReadings) ==
    /\ calls < MaxCalls
    /\ \E net \in netReadings :
          update(ticks, processes, 37, 128, net)
    /\ calls' = calls + 1
    /\ last_op' = "update"
    /\ UNCHANGED <<pc, running, frame_count, total_memory, disks, disk_data,
                   selected, rows, net_view, renders, last_event, render_in,
                   presses>>

InitTable == InitApp(LoopProcLists, {256}, {<<>>}, {<<>>})

NextTable ==
    \/ ApiSelectFirst
    \/ ApiSelectNext
    \/ ApiSelectPrevious
    \/ ApiRender(TablePanels)
    \/ ApiTick(LoopNetReadings)

\* The selection operations, the render and the tick, in any order.
SpecTable == InitTable /\ [][NextTable]_vars

InitView == InitApp(RichProcLists, TotalMemoryVals, {<<>>}, {<<>>})

\* render_process over every process list.
SpecView == InitView /\ [][ApiRender(LoopPanels)]_vars

InitNet == InitApp({<<>>}, {256}, {<<>>}, ViewNetReadings)

NextNet ==
    \/ ApiTick(ViewNetReadings)
    \/ ApiRender(RichPanels)

\* Ticks and renders in any order, the interfaces coming and going.
SpecNet == InitNet /\ [][NextNet]_vars

\* ------------------------------------------------------------------ claims

Min(a, b) == IF a < b THEN a ELSE b

\* The sequence values of a history grow strictly from sample to sample.
Increasing(data) ==
    \A i \in 1..(Len(data) - 1) : data[i][1] < data[i + 1][1]

PressQ == [ev |-> "Key", kind |-> "Press", code |-> "q"]

\* C1: in the run loop, where the frame counter grows with every tick, the
\* cpu history and the memory history each hold exactly one sample per call
\* of update() so far, whatever other operations ran in between.
C1_HistoriesCountTicks ==
    /\ Len(cpu_data) = ticks
    /\ Len(memory_data) = ticks

C1_Witness ==
    /\ ticks > RefreshPeriod
    /\ Len(cpu_data) = ticks
    /\ Len(memory_data) = ticks
    /\ last_op = "handle_events"

\* C2: in every state of the run loop the sequence values of the cpu
\* history, and of the memory history, are strictly increasing.
C2_SequencesIncrease ==
    /\ Increasing(cpu_data)
    /\ Increasing(memory_data)

C2_Witness ==
    /\ Len(cpu_data) > RefreshPeriod
    /\ Len(memory_data) > RefreshPeriod
    /\ cpu_data[Len(cpu_data)][1] = frame_count - 1
    /\ Increasing(cpu_data)

\* C3 as written: an update() whose frame counter is not above the last
\* stored sequence leaves the cpu and the memory history unchanged.
C3_OutOfOrderRejected ==
    [][(/\ ticks' = ticks + 1
        /\ cpu_data # <<>>
        /\ last_tick'.frame <= cpu_data[Len(cpu_data)][1])
       => (cpu_data' = cpu_data /\ memory_data' = memory_data)]_vars

\* C4: an update(f) replaces the process list by the host's when
\* f % 30 = 0 and leaves it alone otherwise, and on every f it appends one
\* cpu sample, one memory sample and one reading per reported interface.
C4_RefreshEveryThirtieth ==
    [][ticks' = ticks + 1
       => /\ (last_tick'.frame % RefreshPeriod = 0) => processes' = last_tick'.procs
          /\ (last_tick'.frame % RefreshPeriod # 0) => processes' = processes
          /\ Len(cpu_data') = Len(cpu_data) + 1
          /\ Len(memory_data') = Len(memory_data) + 1
          /\ \A n \in DOMAIN last_tick'.net :
                Len(network_data'[n]) =
                    1 + (IF n \in DOMAIN network_data THEN Len(network_data[n]) ELSE 0)]_vars

C4_Witness ==
    /\ last_op = "update"
    /\ last_tick.frame = RefreshPeriod
    /\ processes = last_tick.procs
    /\ Len(processes) # Len(rows)
    /\ Len(cpu_data) = RefreshPeriod + 1

\* C5 as written: the loop terminates exactly when running becomes false,
\* so whenever run() has left the loop running is false.
C5_LoopEndsOnlyOnQuit ==
    pc \in {"done", "error", "panic"} => ~running

\* C5: a press of 'q' sets running to false; running never becomes true
\* again; with running false the loop head leaves the loop, and run()
\* returns Ok only with running false; with running false nothing is
\* sampled and nothing is rendered any more.  An Err from the draw, the
\* poll or the read ends run() as well, and leaves running as it was.
C5_QuitStopsLoop ==
    [][/\ (last_op' = "handle_events" /\ last_event' = PressQ) => ~running'
       /\ ~running => ~running'
       /\ ~running => /\ ticks' = ticks
                      /\ renders' = renders
                      /\ cpu_data' = cpu_data
                      /\ memory_data' = memory_data
                      /\ network_data' = network_data
                      /\ rows' = rows
       /\ (pc = "loop" /\ ~running) => pc' = "done"
       /\ pc' = "done" => ~running'
       /\ pc' = "error" => /\ pc \in {"render", "update", "events"}
                           /\ running
                           /\ running' = running]_vars

C5_Witness ==
    /\ pc = "done"
    /\ ~running
    /\ ticks >= 2
    /\ renders = ticks

\* Row a shows at least the cpu of row b.
CpuAtLeast(a, b) ==
    \/ a.cpu.k = "inf"
    \/ a.cpu.k = "dec" /\ b.cpu.k = "dec" /\ a.cpu.h >= b.cpu.h

\* C6: the rows a render hands to the table are non-increasing in their
\* cpu column (the cpu_percent the view shows) from each row to the next,
\* for every process list the sort returns on.
C6_SortedViewNonIncreasing ==
    (last_op = "render" /\ pc # "panic")
    => \A i \in 1..(Len(rows) - 1) : CpuAtLeast(rows[i], rows[i + 1])

C6_Witness ==
    /\ last_op = "render"
    /\ pc # "panic"
    /\ Len(rows) = MaxProcs
    /\ rows[1].pid = MaxProcs
    /\ rows[1].cpu.h > rows[MaxProcs].cpu.h

\* C7: two rows with the same cpu column stand in the order their
\* processes have in the provider's list (pid is the position there).
C7_SortIsStable ==
    (last_op = "render" /\ pc # "panic")
    => \A i, j \in 1..Len(rows) :
          (i < j /\ rows[i].cpu = rows[j].cpu) => rows[i].pid < rows[j].pid

C7_Witness ==
    /\ last_op = "render"
    /\ pc # "panic"
    /\ Len(rows) = MaxProcs
    /\ rows[1].pid = MaxProcs
    /\ \E i \in 1..(Len(rows) - 1) :
          /\ rows[i].cpu = rows[i + 1].cpu
          /\ processes[rows[i].pid].cpu # processes[rows[i + 1].pid].cpu

\* C8 as written: from cursor 0, with len >= 1 rows, select-next never
\* takes the cursor beyond len-1.
C8_CursorNeverExceedsLast ==
    (presses >= 0 /\ Len(processes) >= 1)
    => (selected # <<>> /\ selected[1] <= Len(processes) - 1)

\* After k presses of select-next from cursor 0, with len >= 1 rows: the
\* stored cursor is at most k and at least min(k, len-1), and min(k, len-1)
\* right after a render of a table whose area is not empty.
C8_CursorAfter ==
    (presses >= 0 /\ Len(processes) >= 1)
    => /\ selected # <<>>
       /\ selected[1] <= presses
       /\ selected[1] >= Min(presses, Len(processes) - 1)
       /\ (last_op = "render" /\ ~render_in[2].table_empty)
          => selected[1] = Min(presses, Len(processes) - 1)

\* C8 as amended: select-next adds one to the stored cursor without looking
\* at the row count, so after k presses from cursor 0 the stored cursor is
\* at most k and may stand past the last row; the render of the table
\* clamps it unless the table's area is empty, so that after such a render
\* the cursor is min(k, len-1), and len-1 after len presses;
\* select-previous at row 0 stays at row 0.
C8_ClampedAtRender ==
    [][/\ C8_CursorAfter'
       /\ (last_op' = "select_previous" /\ selected = <<0>>) => selected' = <<0>>]_vars

C8_Witness ==
    /\ Len(processes) = MaxProcs
    /\ presses = MaxProcs
    /\ last_op = "render"
    /\ ~render_in[2].table_empty
    /\ selected = <<MaxProcs - 1>>
    /\ Len(rows) = MaxProcs

\* C9 as written: right after an update() that refreshed the process list,
\* the cursor is within the rows of the new list.
C9_RefreshReclampsCursor ==
    (/\ last_op = "update"
     /\ last_tick.frame % RefreshPeriod = 0
     /\ Len(processes) >= 1
     /\ selected # <<>>)
    => selected[1] <= Len(processes) - 1

\* round((total - available) / total * 100) saturated to 0..100, and 0
\* when total is 0.
UsedPercent(available, total) ==
    IF total = 0 THEN 0
    ELSE IF available >= total THEN 0
    ELSE Min(100, ((total - available) * 200 + total) \div (2 * total))

\* C10 as written: after update_disk_data() every stored disk value is the
\* used percentage of its raw disk (100 for (available 0, total 100), 0 for
\* total 0), so it lies in 0..100.

C10_DiskGaugeIsUsedPercent ==
    calls = 1
    => /\ Len(disk_data) = Len(disks)
       /\ \A i \in 1..Len(disks) :
            disk_data[i][2] = UsedPercent(disks[i].available, disks[i].total)

\* Name a stands before name b in the lexicographic order of their bytes:
\* they agree up to a position where a has the smaller byte or has ended.
NameLess(a, b) ==
    LET x == NameBytes(a)
        y == NameBytes(b)
    IN  \E k \in 1..Len(y) :
          /\ k <= Len(x) + 1
          /\ \A i \in 1..(k - 1) : x[i] = y[i]
          /\ k = Len(x) + 1 \/ x[k] < y[k]

\* Sequence s is the end of sequence t.
IsSuffix(s, t) ==
    /\ Len(s) <= Len(t)
    /\ \A i \in 1..Len(s) : s[i] = t[Len(t) - Len(s) + i]

\* C11: the network view a render builds lists every interface of the
\* network history once, in strictly ascending byte order of the names
\* whatever the map's iteration order was, each with its whole history as
\* recorded; the readings eth0=100, wlan0=50 and then eth0=180, wlan0=50
\* give <<eth0, <<100, 180>>>>, <<wlan0, <<50, 50>>>>.  The panel draws
\* this view from its top, as far as it has rows, and of each history the
\* latest readings, as far as it has columns: all of it when it has room.
C11_NetworkViewSortedByName ==
    last_op = "render"
    => LET view == net_view.sorted
           drawn == net_view.drawn
           panel == render_in[2]
       IN  /\ Len(view) = Cardinality(DOMAIN network_data)
           /\ { view[i][1] : i \in 1..Len(view) } = DOMAIN network_data
           /\ \A i \in 1..(Len(view) - 1) :
                 NameLess(view[i][1], view[i + 1][1])
           /\ \A i \in 1..Len(view) :
                 view[i][2] = network_data[view[i][1]]
           /\ network_data = ("wlan0" :> <<50, 50>> @@ "eth0" :> <<100, 180>>)
              => view = << <<"eth0", <<100, 180>>>>, <<"wlan0", <<50, 50>>>> >>
           /\ Len(drawn) = Min(Len(view), panel.net_rows)
           /\ \A i \in 1..Len(drawn) :
                 /\ drawn[i][1] = view[i][1]
                 /\ IsSuffix(drawn[i][2], view[i][2])
                 /\ Len(drawn[i][2]) = Min(Len(view[i][2]), panel.net_width)
           /\ panel = Roomy => drawn = view

C11_Witness ==
    /\ last_op = "render"
    /\ ticks = 2
    /\ Len(net_view.sorted) = 3
    /\ net_view.sorted[1] = <<"eth0", <<100, 180>>>>
    /\ net_view.sorted[2][1] = "eth10"
    /\ net_view.sorted[3] = <<"wlan0", <<50, 50>>>>
    /\ net_view.drawn = net_view.sorted

PressDown == [ev |-> "Key", kind |-> "Press", code |-> "Down"]

\* C12 as written: the tick of a frame precedes its render, so the view
\* drawn in the n-th frame holds the sample of the n-th tick: n ticks have
\* happened and the eth0 history drawn has n readings.
C12_ViewHoldsFrameSample ==
    (last_op = "render" /\ pc # "panic")
    => /\ ticks = renders
       /\ net_view.drawn # <<>>
       /\ Len(net_view.drawn[1][2]) = renders

\* C12 as amended: every frame runs render, then the tick, then the poll
\* and application of the input, in this order; the view drawn in the n-th
\* frame holds the samples of the n-1 ticks before it (none in the first
\* frame) and is not redrawn by the frame's tick or input, which show
\* from the next frame on.
C12_RenderThenTickThenInput ==
    [][/\ last_op' = "render" => last_op = "while"
       /\ last_op' = "update" => last_op = "render"
       /\ last_op' = "handle_events" => last_op = "update"
       /\ last_op' = "while" => last_op \in {"update_disk_data", "handle_events"}
       /\ (last_op' = "render" /\ pc' # "panic")
          => /\ renders' = ticks' + 1
             /\ ticks' = ticks
             /\ \A i \in 1..Len(net_view'.drawn) :
                   Len(net_view'.drawn[i][2]) <= ticks'
             /\ ticks' > 0 => /\ net_view'.drawn # <<>>
                              /\ Len(net_view'.drawn[1][2]) = ticks'
       /\ last_op' = "update" => (ticks' = renders' /\ ticks' = ticks + 1)
       /\ last_op' \in {"update", "handle_events"}
          => (rows' = rows /\ net_view' = net_view /\ renders' = renders)]_vars

C12_Witness ==
    /\ last_op = "handle_events"
    /\ last_event = PressDown
    /\ renders = 2
    /\ ticks = 2
    /\ selected = <<1>>
    /\ Len(net_view.drawn[1][2]) = 1

\* C13 as written: a render step leaves the histories, the disk list, the
\* process data, the selection cursor and the running flag as they were.
C13_RenderIsReadOnly ==
    [][last_op' = "render"
       => /\ cpu_data' = cpu_data
          /\ memory_data' = memory_data
          /\ network_data' = network_data
          /\ disk_data' = disk_data
          /\ processes' = processes
          /\ selected' = selected
          /\ running' = running]_vars

\* C13 as amended: a render step leaves the histories, the disk list, the
\* process data and the running flag as they were, and writes the selection
\* cursor in one way only, and only when the area of the table is not
\* empty: a cursor past the last row is set to the last row, and the cursor
\* is cleared when the table has no rows.
C13_RenderOnlyClampsCursor ==
    [][last_op' = "render"
       => /\ cpu_data' = cpu_data
          /\ memory_data' = memory_data
          /\ network_data' = network_data
          /\ disk_data' = disk_data
          /\ processes' = processes
          /\ total_memory' = total_memory
          /\ running' = running
          /\ render_in'[1] = selected
          /\ pc' = "panic" => selected' = selected
          /\ pc' # "panic"
             => /\ Len(rows') = Len(processes)
                /\ selected' =
                     IF render_in'[2].table_empty THEN selected
                     ELSE IF Len(rows') = 0 \/ selected = <<>> THEN <<>>
                     ELSE <<Min(selected[1], Len(rows') - 1)>>]_vars

C13_Witness ==
    /\ last_op = "render"
    /\ Len(rows) = MaxProcs
    /\ render_in[1] = <<MaxProcs>>
    /\ ~render_in[2].table_empty
    /\ selected = <<MaxProcs - 1>>
    /\ Len(cpu_data) = 2
    /\ Len(network_data["eth0"]) = 2

\* C14 as written: whatever the provider reports (a cpu reading that is
\* not a number, a total memory of zero), the render does not panic and
\* the rows it builds carry sanitized values: decimal numbers in the cpu
\* and in the memory column.
C14_NoPanicOnMalformedData ==
    /\ pc # "panic"
    /\ last_op = "render"
       => \A i \in 1..Len(rows) : rows[i].cpu.k = "dec" /\ rows[i].mem.k = "dec"

\* C15 as written: after any number k >= 1 of disk refreshes against the
\* same disks, the disk list holds exactly one entry per disk, in the
\* provider's order.
C15_DiskRefreshReplaces ==
    calls >= 1
    => /\ Len(disk_data) = Len(disks)
       /\ \A i \in 1..Len(disks) : disk_data[i][1] = LastSegment(disks[i].name)

\* C16: a tick adds to the network history exactly the interfaces reported
\* for the first time, each with a history of that one reading, appends
\* exactly one reading to the history of every interface already present
\* and reported, and leaves every other history as it was; no other step
\* touches the network history, so no key and no stored reading is ever
\* removed or changed.
C16_InterfacesOnlyGrow ==
    [][/\ ticks' = ticks + 1
          => LET net == last_tick'.net
             IN  /\ DOMAIN network_data' = DOMAIN network_data \cup DOMAIN net
                 /\ \A n \in DOMAIN net \ DOMAIN network_data :
                       network_data'[n] = <<net[n]>>
                 /\ \A n \in DOMAIN network_data \cap DOMAIN net :
                       network_data'[n] = Append(network_data[n], net[n])
                 /\ \A n \in DOMAIN network_data \ DOMAIN net :
                       network_data'[n] = network_data[n]
       /\ ticks' = ticks => network_data' = network_data]_vars

C16_Witness ==
    /\ last_op = "update"
    /\ ticks = 2
    /\ DOMAIN networks = {"eth0", "eth10"}
    /\ DOMAIN network_data = Interfaces
    /\ network_data["wlan0"] = <<50>>
    /\ network_data["eth0"] = <<180>>
    /\ network_data["eth10"] = <<50, 50>>

ReleaseQ == [ev |-> "Key", kind |-> "Release", code |-> "q"]

\* The event is a Press of the key `code`.
IsPress(e, codes) ==
    IF e.ev = "Key" THEN e.kind = "Press" /\ e.code \in codes ELSE FALSE

\* C17: a handle_events step applies the one event its poll delivered, and
\* only if it is a Press of a mapped key: q clears the running flag, Down
\* or j moves the cursor one step on, Up or k one step back; a release or
\* repeat event, a mouse or resize event, a Press of another key or a poll
\* that timed out leaves the running flag and the cursor as they were.
\* There is one such step per loop iteration, after the iteration's update,
\* and no other step changes the running flag.
C17_OnlyPressActedOn ==
    [][/\ last_op' = "handle_events"
          => LET e == last_event'
             IN  /\ last_op = "update"
                 /\ IsPress(e, {"q"}) => (~running' /\ selected' = selected)
                 /\ IsPress(e, {"Down", "j"})
                    => (running' = running /\ selected' = select_next(selected))
                 /\ IsPress(e, {"Up", "k"})
                    => (running' = running /\ selected' = select_previous(selected))
                 /\ ~IsPress(e, {"q", "Down", "j", "Up", "k"})
                    => (running' = running /\ selected' = selected)
       /\ last_op' # "handle_events" => running' = running]_vars

C17_Witness ==
    /\ last_op = "handle_events"
    /\ last_event = ReleaseQ
    /\ running
    /\ selected = <<1>>
    /\ ticks = 3

\* C18: in every state of the run loop the cpu history and the memory
\* history have the same length and the same sequence value at every
\* index, and no interface's history is longer than the cpu history.
C18_HistoriesAligned ==
    /\ Len(cpu_data) = Len(memory_data)
    /\ \A i \in 1..Len(cpu_data) : cpu_data[i][1] = memory_data[i][1]
    /\ \A n \in DOMAIN network_data : Len(network_data[n]) <= Len(cpu_data)

C18_Witness ==
    /\ pc = "loop"
    /\ Len(cpu_data) > RefreshPeriod
    /\ Len(memory_data) = Len(cpu_data)
    /\ memory_data[Len(memory_data)][1] = RefreshPeriod
    /\ Len(network_data["eth0"]) = Len(cpu_data)
    /\ "wlan0" \in DOMAIN network_data
    /\ Len(network_data["wlan0"]) < Len(cpu_data)

====
